---- MODULE Spec2Model ----
(***************************************************************************)
(* Model of streamlit_app_optimized.py: a Streamlit dashboard over a       *)
(* monthly NO2 / T21 table and per-month raster images.                    *)
(*                                                                         *)
(* A Streamlit script is executed top to bottom on every user interaction. *)
(* The state that survives between executions is the process-wide          *)
(* memo of load_data (st.cache_data), the session's st.session_state and   *)
(* the values of the widgets that the previous execution rendered.  The    *)
(* files on disk belong to the environment.                                *)
(*                                                                         *)
(* Numbers.  NO2 is a natural number of a small unit (1e-9 mol/m2), T21 a  *)
(* natural number of hundredths of a Kelvin, an opacity a number of tenths *)
(* (the sliders step by 0.1), a percentage a number of tenths of a percent.*)
(***************************************************************************)
EXTENDS Integers, Sequences, FiniteSets, TLC

VARIABLES
    csvExists,    \* datos_no2_t21.csv is on disk
    metaExists,   \* metadata.json is on disk
    dirExists,    \* the directory monthly_images is on disk
    csvTable,     \* the rows of the CSV file (when it exists)
    images,       \* images[layer][month]: the PNG file, or NoFile
    cache,        \* the memo of load_data
    loads,        \* how many times the body of load_data has run
    session,      \* st.session_state['theme'], or "unset"
    widgets,      \* the widget values the browser holds for the session
    out,          \* what the last execution of the script rendered
    probe         \* input and result of a function applied on its own

vars == <<csvExists, metaExists, dirExists, csvTable, images, cache, loads,
          session, widgets, out, probe>>

diskVars == <<csvExists, metaExists, dirExists, csvTable, images>>

----------------------------------------------------------------------------
(* Bounds of the model.                                                    *)

MaxRows == 3       \* longest CSV table
MaxMonth == 2      \* months are 1..MaxMonth (of the year 2024)
MaxPixels == 2     \* largest image, in pixels
MaxLoads == 2      \* the loader-run counter stops counting here
RScale == 50       \* correlation inputs are k / RScale

Months == 1..MaxMonth

\* The measurements of a row of the CSV: NO2 is zero or needs more than the
\* three significant digits that the metric shows; T21, in hundredths of a
\* Kelvin, is 300.00 or 300.04.  None is a rounding tie.
Readings ==
    {[no2 |-> 0, t21 |-> 30000], [no2 |-> 1234, t21 |-> 30004], [no2 |-> 3702, t21 |-> 30000]}

Rows == {[month |-> m, no2 |-> v.no2, t21 |-> v.t21] : m \in Months, v \in Readings}

RECURSIVE SeqsUpTo(_, _)
SeqsUpTo(S, n) ==
    IF n = 0 THEN {<<>>}
    ELSE LET shorter == SeqsUpTo(S, n - 1)
         IN  shorter \cup {Append(s, x) : s \in {t \in shorter : Len(t) = n - 1}, x \in S}

\* Every non-empty CSV table within the bounds: rows in any order, months
\* possibly repeated.
Tables == SeqsUpTo(Rows, MaxRows) \ {<<>>}

----------------------------------------------------------------------------
(* Number formatting.                                                      *)

\* n / d rounded to the nearest integer, ties to even, as the float
\* formatting of Python rounds a value that is exactly representable.
RoundHalfEven(n, d) ==
    LET q == n \div d
        r == n - q * d
    IN  IF 2 * r < d THEN q
        ELSE IF 2 * r > d THEN q + 1
        ELSE IF q % 2 = 0 THEN q ELSE q + 1

RECURSIVE Pow10For3Digits(_)
\* The power of ten at which n has three digits left of the cut.
Pow10For3Digits(n) == IF n < 1000 THEN 1 ELSE 10 * Pow10For3Digits(n \div 10)

\* f"{x:.2e}": the value kept to three significant digits.
FormatSci2(n) ==
    LET p == Pow10For3Digits(n) IN RoundHalfEven(n, p) * p

\* f"{x:.1f}" of a value given in hundredths: the value in tenths.
FormatFixed1(hundredths) == RoundHalfEven(hundredths, 10)

----------------------------------------------------------------------------
(* The month selector and the metric panel (lines 197-235).                *)

RECURSIVE Unique(_)
\* Series.unique(): the distinct values in order of first appearance.
Unique(s) ==
    IF s = <<>> THEN <<>>
    ELSE LET front == Unique(SubSeq(s, 1, Len(s) - 1))
             last == s[Len(s)]
         IN  IF \E i \in 1..Len(front) : front[i] = last THEN front
             ELSE Append(front, last)

\* x put into the ascending sequence s at its place.
Insert(s, x) ==
    LET k == Cardinality({i \in 1..Len(s) : s[i] <= x})
    IN  SubSeq(s, 1, k) \o <<x>> \o SubSeq(s, k + 1, Len(s))

RECURSIVE Sorted(_)
\* sorted(list): ascending order.
Sorted(s) ==
    IF s = <<>> THEN <<>> ELSE Insert(Sorted(SubSeq(s, 1, Len(s) - 1)), s[Len(s)])

\* df['Fecha'].dt.strftime('%Y-%m'): the month column.
MonthColumn(df) == [i \in 1..Len(df) |-> df[i].month]

\* The months without the sort.
AvailableMonthsUnsorted(df) == Unique(MonthColumn(df))

\* available_months = sorted(df['Fecha'].dt.strftime('%Y-%m').unique().tolist())
AvailableMonths(df) == Sorted(Unique(MonthColumn(df)))

\* The default of the month selectbox: index = len(available_months) - 1.
DefaultMonthIndex(options) == Len(options)

\* The value st.selectbox returns: the option the session holds for the
\* widget, or the option at the default index when it holds none.
SelectedMonth(options, held) ==
    IF held \in {options[i] : i \in 1..Len(options)} THEN held
    ELSE options[DefaultMonthIndex(options)]

\* Position of the first row of the selected month:
\* df[df['Fecha'].dt.strftime('%Y-%m') == selected_month].index[0]
\* (read_csv numbers the rows 0, 1, ...; positions here count from 1).
CurrentIdx(df, m) ==
    CHOOSE i \in 1..Len(df) :
        /\ df[i].month = m
        /\ \A j \in 1..(i - 1) : df[j].month # m

\* The last row of the selected month instead of the first.
SelectedDataLast(df, m) ==
    df[CHOOSE i \in 1..Len(df) :
          df[i].month = m /\ \A j \in (i + 1)..Len(df) : df[j].month # m]

\* selected_data = df[... == selected_month].iloc[0]
SelectedData(df, m) == df[CurrentIdx(df, m)]

\* st.metric("NO2 ...", f"{selected_data['NO2']:.2e} mol/m2")
MetricNO2(row) == FormatSci2(row.no2)

\* st.metric("T21 ...", f"{selected_data['T21']:.1f} K")
MetricT21(row) == FormatFixed1(row.t21)

NoDelta == [shown |-> FALSE, kind |-> "none", tenths |-> 0]

\* The change taken relative to the selected month instead of the previous.
DeltaNO2OverCurrent(cur, prev) ==
    IF cur = 0
    THEN [shown |-> TRUE, kind |-> IF prev = 0 THEN "nan" ELSE "inf", tenths |-> 0]
    ELSE [shown |-> TRUE, kind |-> "num",
          tenths |-> RoundHalfEven((cur - prev) * 1000, cur)]

\* delta_no2 = ((selected_data['NO2'] - prev_no2) / prev_no2) * 100, shown as
\* f"{delta_no2:+.1f}%".  The values are numpy floats: a division by zero
\* gives inf (or nan for 0/0), not an exception.
DeltaNO2(cur, prev) ==
    IF prev = 0
    THEN [shown |-> TRUE, kind |-> IF cur = 0 THEN "nan" ELSE "inf", tenths |-> 0]
    ELSE [shown |-> TRUE, kind |-> "num",
          tenths |-> RoundHalfEven((cur - prev) * 1000, prev)]

\* delta_t21 = selected_data['T21'] - prev_t21, shown as f"{delta_t21:+.1f} K"
DeltaT21(cur, prev) ==
    [shown |-> TRUE, kind |-> "num", tenths |-> FormatFixed1(cur - prev)]

\* Lines 218-234: the two delta metrics of column 4.
Deltas(df, m) ==
    LET idx == CurrentIdx(df, m)
    IN  IF Len(df) > 1 /\ idx > 1
        THEN [no2 |-> DeltaNO2(df[idx].no2, df[idx - 1].no2),
              t21 |-> DeltaT21(df[idx].t21, df[idx - 1].t21)]
        ELSE [no2 |-> NoDelta, t21 |-> NoDelta]

----------------------------------------------------------------------------
(* Images and the overlay (lines 301-331).  A pixel is a colour value c    *)
(* (standing for the three colour bands, which are treated alike) and an   *)
(* alpha value a, both 0..255.  The images are one pixel high: an image is *)
(* its row of pixels, and its size is their number.                        *)

Layers == {"no2", "t21"}

NoFile == [exists |-> FALSE, px |-> <<>>]

PixelValues == {[c |-> 0, a |-> 0], [c |-> 40, a |-> 255], [c |-> 200, a |-> 128]}

\* The PNG files a month can have: pixels of any of the values above.
ImageFiles ==
    {[exists |-> TRUE, px |-> p] : p \in SeqsUpTo(PixelValues, MaxPixels) \ {<<>>}}

Size(img) == Len(img.px)

\* Image.resize(size, LANCZOS) gives an image of the requested size.  The
\* filter's colour arithmetic is not modelled: each pixel takes the value of
\* the source pixel it falls on.
Resize(img, size) ==
    [exists |-> TRUE,
     px |-> [i \in 1..size |-> img.px[((i - 1) * Size(img)) \div size + 1]]]

\* Image.new('RGBA', size, (255, 255, 255, 255))
NewImage(size, pixel) == [exists |-> TRUE, px |-> [i \in 1..size |-> pixel]]

\* Image.putalpha(int): the alpha band of every pixel is replaced.
PutAlpha(img, alpha) ==
    [exists |-> TRUE, px |-> [i \in 1..Size(img) |-> [c |-> img.px[i].c, a |-> alpha]]]

\* The alpha value rounded to the nearest integer instead of cut.
AlphaOfRounded(opacity) == (255 * opacity + 5) \div 10

\* int(255 * opacity), the opacity given in tenths: the float product is cut
\* towards zero (25.5 gives 25).
AlphaOf(opacity) == (255 * opacity) \div 10

PrecisionBits == 7

\* Pillow's division by 255: ((a >> 8) + a) >> 8.
ShiftForDiv255(a) == ((a \div 256) + a) \div 256

\* One pixel of Image.alpha_composite(dst, src), in Pillow's integer
\* arithmetic: src over dst.
CompositePixel(dst, src) ==
    IF src.a = 0 THEN dst
    ELSE LET blend == dst.a * (255 - src.a)
             outa255 == src.a * 255 + blend
             coef1 == (src.a * 255 * 255 * (2 ^ PrecisionBits)) \div outa255
             coef2 == 255 * (2 ^ PrecisionBits) - coef1
             tmp == src.c * coef1 + dst.c * coef2
         IN  [c |-> ShiftForDiv255(tmp + 128 * (2 ^ PrecisionBits)) \div (2 ^ PrecisionBits),
              a |-> ShiftForDiv255(outa255 + 128)]

\* Image.alpha_composite(dst, src) of two images of the same size.
AlphaComposite(dst, src) ==
    [exists |-> TRUE,
     px |-> [i \in 1..Size(dst) |-> CompositePixel(dst.px[i], src.px[i])]]

White == [c |-> 255, a |-> 255]

\* Lines 308-324: the two layers that are composited.  The T21 picture is
\* resized when its size is not that of the NO2 picture; each layer is a copy
\* whose alpha band is set from its own slider.
OverlayLayers(file_no2, file_t21, opacity_no2, opacity_t21) ==
    LET img_no2 == file_no2
        img_t21 == IF Size(file_no2) # Size(file_t21)
                   THEN Resize(file_t21, Size(file_no2)) ELSE file_t21
    IN  [no2 |-> PutAlpha(img_no2, AlphaOf(opacity_no2)),
         t21 |-> PutAlpha(img_t21, AlphaOf(opacity_t21))]

\* Lines 316, 327-328: the two layers over a white base of the NO2 size.
Composite(img_no2_alpha, img_t21_alpha) ==
    AlphaComposite(AlphaComposite(NewImage(Size(img_no2_alpha), White), img_no2_alpha),
                   img_t21_alpha)

\* Lines 308-328: the image shown in overlay mode.
Overlay(file_no2, file_t21, opacity_no2, opacity_t21) ==
    Composite(OverlayLayers(file_no2, file_t21, opacity_no2, opacity_t21).no2,
              OverlayLayers(file_no2, file_t21, opacity_no2, opacity_t21).t21)

----------------------------------------------------------------------------
(* The correlation tab (lines 535, 603-617).  Pearson's r is kept exactly, *)
(* as its sign and its square sqn / sqd, or as NaN.                        *)

NaN == [nan |-> TRUE, neg |-> FALSE, sqn |-> 0, sqd |-> 1]

RECURSIVE Gcd(_, _)
Gcd(a, b) == IF b = 0 THEN a ELSE Gcd(b, a % b)

Abs(x) == IF x < 0 THEN -x ELSE x

RECURSIVE SumSeq(_)
SumSeq(s) == IF s = <<>> THEN 0 ELSE s[Len(s)] + SumSeq(SubSeq(s, 1, Len(s) - 1))

RECURSIVE GcdSeq(_)
GcdSeq(s) == IF s = <<>> THEN 0 ELSE Gcd(Abs(s[Len(s)]), GcdSeq(SubSeq(s, 1, Len(s) - 1)))

\* A column shifted by its first value and divided by the greatest common
\* divisor of the result: r does not change under either, and the integers
\* stay small.
Scaled(dev, g) == IF g = 0 THEN dev ELSE [i \in 1..Len(dev) |-> dev[i] \div g]

Shifted(col) == [i \in 1..Len(col) |-> col[i] - col[1]]

Reduced(col) == Scaled(Shifted(col), GcdSeq(Shifted(col)))

\* correlation = df['NO2'].corr(df['T21']): NaN for fewer than two rows or a
\* constant column.
\* n times the sum of the products less the product of the sums: n * n
\* times the covariance of x and y.
Cov(x, y) ==
    Len(x) * SumSeq([i \in 1..Len(x) |-> x[i] * y[i]]) - SumSeq(x) * SumSeq(y)

Pearson(n, cov, vx, vy) ==
    IF n < 2 \/ vx = 0 \/ vy = 0 THEN NaN
    ELSE [nan |-> FALSE, neg |-> cov < 0, sqn |-> cov * cov, sqd |-> vx * vy]

PearsonOf(x, y) == Pearson(Len(x), Cov(x, y), Cov(x, x), Cov(y, y))

Corr(df) ==
    PearsonOf(Reduced([i \in 1..Len(df) |-> df[i].no2]),
              Reduced([i \in 1..Len(df) |-> df[i].t21]))

\* abs(r) <= num / den.
AbsLessOrEqual(r, num, den) == ~r.nan /\ r.sqn * den * den <= num * num * r.sqd

\* The thresholds compared with <= instead of <.
InterpretationInclusive(r) ==
    IF AbsLessOrEqual(r, 3, 10) THEN "Correlacion Debil"
    ELSE IF AbsLessOrEqual(r, 7, 10) THEN "Correlacion Moderada"
    ELSE "Correlacion Fuerte"

\* abs(r) < num / den; every comparison with NaN is false.
AbsLess(r, num, den) == ~r.nan /\ r.sqn * den * den < num * num * r.sqd

\* Lines 603-617: the strength label.
Interpretation(r) ==
    IF AbsLess(r, 3, 10) THEN "Correlacion Debil"
    ELSE IF AbsLess(r, 7, 10) THEN "Correlacion Moderada"
    ELSE "Correlacion Fuerte"

----------------------------------------------------------------------------
(* The theme selector (lines 37-146) and the loader (lines 151-187).       *)

Themes == <<"Claro", "Oscuro">>

\* st.radio(label, options): the option the session holds for the widget, or
\* the first option.
Radio(options, held) ==
    IF held \in {options[i] : i \in 1..Len(options)} THEN held ELSE options[1]

\* The dark branch that forgets to set the dark template.
PlotlyTemplateAlwaysWhite(theme) == "plotly_white"

\* Lines 41-146: the style sheet and plotly_template.
PlotlyTemplate(theme) == IF theme = "Oscuro" THEN "plotly_dark" ELSE "plotly_white"

StyleSheet(theme) == IF theme = "Oscuro" THEN "dark" ELSE "light"

Metadata == "metadata"

ErrorMsg == "Archivos no encontrados"

\* A loader that catches the missing CSV file only.
LoadDataBodyCsvOnly(csv_there, meta_there, table) ==
    IF csv_there
    THEN [df |-> table, none |-> FALSE, metadata |-> Metadata,
          error |-> IF meta_there THEN "None" ELSE ErrorMsg]
    ELSE [df |-> <<>>, none |-> TRUE, metadata |-> "None", error |-> ErrorMsg]

\* The body of load_data: (df, metadata, None), or (None, None, error_msg)
\* when reading either file raises FileNotFoundError.
LoadDataBody(csv_there, meta_there, table) ==
    IF csv_there /\ meta_there
    THEN [df |-> table, none |-> FALSE, metadata |-> Metadata, error |-> "None"]
    ELSE [df |-> <<>>, none |-> TRUE, metadata |-> "None", error |-> ErrorMsg]

EmptyCache == [filled |-> FALSE, value |-> LoadDataBody(FALSE, FALSE, <<>>)]

\* load_data without @st.cache_data: the body runs on every call.
LoadDataUncached(memo, csv_there, meta_there, table) ==
    [value |-> LoadDataBody(csv_there, meta_there, table),
     memo |-> [filled |-> TRUE, value |-> LoadDataBody(csv_there, meta_there, table)],
     ran |-> TRUE]

\* A memo that keeps the results without an error only: after an error the
\* body runs again on the next call.
LoadDataErrorNotKept(memo, csv_there, meta_there, table) ==
    IF memo.filled
    THEN [value |-> memo.value, memo |-> memo, ran |-> FALSE]
    ELSE LET v == LoadDataBody(csv_there, meta_there, table)
         IN  [value |-> v,
              memo |-> IF v.error = "None" THEN [filled |-> TRUE, value |-> v] ELSE memo,
              ran |-> TRUE]

\* @st.cache_data: the body runs when the memo holds no value; whatever it
\* returns, an error tuple included, is kept and returned from then on.
LoadData(memo, csv_there, meta_there, table) ==
    IF memo.filled
    THEN [value |-> memo.value, memo |-> memo, ran |-> FALSE]
    ELSE LET v == LoadDataBody(csv_there, meta_there, table)
         IN  [value |-> v, memo |-> [filled |-> TRUE, value |-> v], ran |-> TRUE]

----------------------------------------------------------------------------
(* The map tab (lines 245-400).                                            *)

ViewModes == <<"Comparacion lado a lado", "Superposicion con control", "Vista individual">>

LayerChoices == <<"NO2 - Dioxido de Nitrogeno", "T21 - Temperatura de Brillo (Incendios)">>

BlendModes == <<"Normal", "Multiplicar", "Pantalla">>

SliderSteps == 0..10          \* st.slider(label, 0.0, 1.0, default, 0.1), in tenths
DefaultOpacityNO2 == 10
DefaultOpacityT21 == 5

NoOpacity == 0 - 1            \* the session holds no value for the slider

\* st.slider: the value the session holds for the widget, or the default.
Slider(held, default) == IF held \in SliderSteps THEN held ELSE default

\* "NO2" in layer_choice
IsNO2Choice(layer_choice) == layer_choice = LayerChoices[1]

\* One column of the side-by-side view, or the single-layer view: the image
\* when its file exists, an error message otherwise.
ShowLayer(imgs, layer, month) ==
    IF imgs[layer][month].exists
    THEN [shown |-> <<[layer |-> layer, img |-> imgs[layer][month]]>>, errors |-> <<>>]
    ELSE [shown |-> <<>>, errors |-> <<layer>>]

NoMap ==
    [warning |-> FALSE, selector |-> FALSE, view_mode |-> "unset", modes |-> {},
     shown |-> <<>>, errors |-> <<>>, sliders |-> FALSE,
     opacity_no2 |-> NoOpacity, opacity_t21 |-> NoOpacity, blend_mode |-> "unset",
     layerRadio |-> FALSE, layer_choice |-> "unset", legends |-> FALSE]

\* Side by side without the img_path.exists() tests.
SideBySideUnchecked(imgs, month) ==
    [NoMap EXCEPT !.selector = TRUE, !.view_mode = ViewModes[1],
                  !.modes = {ViewModes[1]}, !.legends = TRUE,
                  !.shown = <<[layer |-> "no2", img |-> imgs["no2"][month]],
                              [layer |-> "t21", img |-> imgs["t21"][month]]>>]

\* Lines 263-282: both layers next to each other.
SideBySide(imgs, month) ==
    LET left == ShowLayer(imgs, "no2", month)
        right == ShowLayer(imgs, "t21", month)
    IN  [NoMap EXCEPT !.selector = TRUE, !.view_mode = ViewModes[1],
                      !.modes = {ViewModes[1]}, !.legends = TRUE,
                      !.shown = left.shown \o right.shown,
                      !.errors = left.errors \o right.errors]

\* An overlay whose blend mode matters: any mode but "Normal" puts the T21
\* layer under the NO2 layer.
OverlayViewBlended(imgs, month, w) ==
    LET opacity_no2 == Slider(w.opacity_no2, DefaultOpacityNO2)
        opacity_t21 == Slider(w.opacity_t21, DefaultOpacityT21)
        blend_mode == Radio(BlendModes, w.blend_mode)
        both == imgs["no2"][month].exists /\ imgs["t21"][month].exists
        layers == OverlayLayers(imgs["no2"][month], imgs["t21"][month],
                                opacity_no2, opacity_t21)
    IN  [NoMap EXCEPT !.selector = TRUE, !.view_mode = ViewModes[2],
                      !.modes = {ViewModes[2]}, !.legends = TRUE,
                      !.sliders = TRUE, !.opacity_no2 = opacity_no2,
                      !.opacity_t21 = opacity_t21, !.blend_mode = blend_mode,
                      !.shown = IF both
                                THEN <<[layer |-> "overlay",
                                        img |-> IF blend_mode = BlendModes[1]
                                                THEN Composite(layers.no2, layers.t21)
                                                ELSE Composite(layers.t21, layers.no2)]>>
                                ELSE <<>>,
                      !.errors = IF both THEN <<>> ELSE <<"overlay">>]

\* Lines 285-340: the composite of both layers under the two opacity sliders.
\* blend_mode is read from its selectbox and not used.
OverlayView(imgs, month, w) ==
    LET opacity_no2 == Slider(w.opacity_no2, DefaultOpacityNO2)
        opacity_t21 == Slider(w.opacity_t21, DefaultOpacityT21)
        blend_mode == Radio(BlendModes, w.blend_mode)
        both == imgs["no2"][month].exists /\ imgs["t21"][month].exists
    IN  [NoMap EXCEPT !.selector = TRUE, !.view_mode = ViewModes[2],
                      !.modes = {ViewModes[2]}, !.legends = TRUE,
                      !.sliders = TRUE, !.opacity_no2 = opacity_no2,
                      !.opacity_t21 = opacity_t21, !.blend_mode = blend_mode,
                      !.shown = IF both
                                THEN <<[layer |-> "overlay",
                                        img |-> Overlay(imgs["no2"][month], imgs["t21"][month],
                                                        opacity_no2, opacity_t21)]>>
                                ELSE <<>>,
                      !.errors = IF both THEN <<>> ELSE <<"overlay">>]

\* Lines 343-367: one layer, chosen by a radio.
SingleView(imgs, month, w) ==
    LET layer_choice == Radio(LayerChoices, w.layer_choice)
        one == ShowLayer(imgs, IF IsNO2Choice(layer_choice) THEN "no2" ELSE "t21", month)
    IN  [NoMap EXCEPT !.selector = TRUE, !.view_mode = ViewModes[3],
                      !.modes = {ViewModes[3]}, !.legends = TRUE,
                      !.layerRadio = TRUE, !.layer_choice = layer_choice,
                      !.shown = one.shown, !.errors = one.errors]

\* Lines 245-400: tab1.
MapTab(dir_there, imgs, month, w) ==
    IF ~dir_there THEN [NoMap EXCEPT !.warning = TRUE]
    ELSE LET view_mode == Radio(ViewModes, w.view_mode)
         IN  IF view_mode = ViewModes[1] THEN SideBySide(imgs, month)
             ELSE IF view_mode = ViewModes[2] THEN OverlayView(imgs, month, w)
             ELSE SingleView(imgs, month, w)

----------------------------------------------------------------------------
(* One execution of the script.                                            *)

NoWidgets ==
    [theme |-> "unset", month |-> 0, view_mode |-> "unset",
     opacity_no2 |-> NoOpacity, opacity_t21 |-> NoOpacity,
     blend_mode |-> "unset", layer_choice |-> "unset"]

\* Nothing rendered: the page before the first execution.
Blank ==
    [ran |-> FALSE, bodyRan |-> FALSE, csvSeen |-> FALSE, metaSeen |-> FALSE,
     filesThere |-> FALSE, dirSeen |-> FALSE,
     themeRadio |-> "unset", css |-> "none",
     error |-> "None", halted |-> FALSE,
     header |-> FALSE, monthOptions |-> <<>>, month |-> 0,
     metrics |-> FALSE, metricNO2 |-> 0, metricT21 |-> 0,
     deltaNO2 |-> NoDelta, deltaT21 |-> NoDelta,
     tabs |-> FALSE, map |-> NoMap, charts |-> <<>>, corrLabel |-> "none",
     table |-> <<>>, df |-> <<>>, info |-> FALSE, footer |-> FALSE]

\* Lines 521-526: the table of the expander: '%Y-%m' of the date,
\* f"{x:.2e}" of NO2, f"{x:.2f}" of T21 (hundredths).  The formatting is done
\* on df_display = df.copy(), so df is as it was.
DataTable(df) ==
    [df |-> df,
     df_display |-> [i \in 1..Len(df) |->
         [month |-> df[i].month, no2 |-> FormatSci2(df[i].no2), t21 |-> df[i].t21]]]

\* fig.update_layout(template=plotly_template, ...) of the two charts
\* (lines 479-485 and 578-586).
Charts(theme, plotly_template) ==
    <<[chart |-> "series", template |-> plotly_template, darkFont |-> theme = "Oscuro"],
      [chart |-> "scatter", template |-> plotly_template, darkFont |-> theme = "Oscuro"]>>

\* Lines 37-39: the theme radio; its value is stored in session_state.
ThemeSelector(w) == Radio(Themes, w.theme)

\* The error path without st.stop(): the page goes on to the header and footer.
HaltedWithoutStop(theme, loaded) ==
    [Blank EXCEPT !.ran = TRUE,
                  !.themeRadio = theme, !.css = StyleSheet(theme),
                  !.error = loaded.value.error, !.header = TRUE, !.footer = TRUE]

\* Lines 183-187: st.error, st.info, st.code, st.stop.  Only the theme radio
\* and the style sheet were rendered before.
Halted(theme, loaded) ==
    [Blank EXCEPT !.ran = TRUE,
                  !.themeRadio = theme, !.css = StyleSheet(theme),
                  !.error = loaded.value.error, !.halted = TRUE]

\* Lines 192-749: the dashboard.
Panels(theme, df, available_months, selected_month, dir_there, imgs, w) ==
    LET plotly_template == PlotlyTemplate(theme)
        selected_data == SelectedData(df, selected_month)
        deltas == Deltas(df, selected_month)
        tab2 == DataTable(df)
    IN  [Blank EXCEPT !.ran = TRUE, !.dirSeen = dir_there,
                      !.themeRadio = theme, !.css = StyleSheet(theme),
                      !.header = TRUE,
                      !.monthOptions = available_months, !.month = selected_month,
                      !.metrics = TRUE,
                      !.metricNO2 = MetricNO2(selected_data),
                      !.metricT21 = MetricT21(selected_data),
                      !.deltaNO2 = deltas.no2, !.deltaT21 = deltas.t21,
                      !.tabs = TRUE,
                      !.map = MapTab(dir_there, imgs, selected_month, w),
                      !.charts = Charts(theme, plotly_template),
                      !.table = tab2.df_display,
                      !.corrLabel = Interpretation(Corr(tab2.df)),
                      !.df = tab2.df,
                      !.info = TRUE, !.footer = TRUE]

Dashboard(theme, df, dir_there, imgs, w) ==
    Panels(theme, df, AvailableMonths(df),
           SelectedMonth(AvailableMonths(df), w.month), dir_there, imgs, w)

\* The widget values the session holds after an execution: those of the
\* widgets it rendered.  A widget that was not rendered loses its value.
WidgetsAfter(o) ==
    [theme |-> o.themeRadio, month |-> o.month, view_mode |-> o.map.view_mode,
     opacity_no2 |-> o.map.opacity_no2, opacity_t21 |-> o.map.opacity_t21,
     blend_mode |-> o.map.blend_mode, layer_choice |-> o.map.layer_choice]

\* A script for which the missing image directory is fatal: it stops after
\* the warning of the map tab, before the other tabs and the footer.
RenderStopsWithoutDir(theme, loaded, dir_there, imgs, w) ==
    IF loaded.value.error # "None"
    THEN Halted(theme, loaded)
    ELSE IF dir_there
    THEN Dashboard(theme, loaded.value.df, dir_there, imgs, w)
    ELSE [Dashboard(theme, loaded.value.df, dir_there, imgs, w)
             EXCEPT !.halted = TRUE, !.charts = <<>>, !.corrLabel = "none",
                    !.table = <<>>, !.info = FALSE, !.footer = FALSE]

\* The whole script, top to bottom, with the widget values w.
Render(theme, loaded, dir_there, imgs, w) ==
    IF loaded.value.error # "None"
    THEN Halted(theme, loaded)
    ELSE Dashboard(theme, loaded.value.df, dir_there, imgs, w)

\* The page with what the execution met: whether the body of load_data ran
\* and which files it found, and, for an error page, whether both files were
\* on disk while it was rendered.
Executed(theme, loaded, csv_there, meta_there, dir_there, imgs, w) ==
    [out |-> [Render(theme, loaded, dir_there, imgs, w)
                 EXCEPT !.bodyRan = loaded.ran,
                        !.csvSeen = loaded.ran /\ csv_there,
                        !.metaSeen = loaded.ran /\ meta_there,
                        !.filesThere = /\ loaded.value.error # "None"
                                       /\ csv_there /\ meta_there],
     session |-> theme, memo |-> loaded.memo, ran |-> loaded.ran]

Script(w, memo, csv_there, meta_there, dir_there, table, imgs) ==
    Executed(ThemeSelector(w), LoadData(memo, csv_there, meta_there, table),
             csv_there, meta_there, dir_there, imgs, w)

Count(n) == IF n < MaxLoads THEN n + 1 ELSE n

\* An execution of the script with the widget values w: the new state.
Run(w) ==
    \E r \in {Script(w, cache, csvExists, metaExists, dirExists, csvTable, images)} :
        /\ out' = r.out
        /\ session' = r.session
        /\ cache' = r.memo
        /\ loads' = IF r.ran THEN Count(loads) ELSE loads
        /\ widgets' = WidgetsAfter(r.out)
        /\ UNCHANGED <<diskVars, probe>>

----------------------------------------------------------------------------
(* The user's interactions: each sets a widget of the page that the last   *)
(* execution rendered, and the script is executed again.                   *)

\* A browser opens the page: a new session, whose widgets hold no value.
\* The memo of load_data belongs to the process and is kept.
Open == Run(NoWidgets)

\* The page is run again with nothing changed.
Rerun == out.ran /\ Run(widgets)

ChangeTheme(t) ==
    /\ out.ran
    /\ t # widgets.theme
    /\ Run([widgets EXCEPT !.theme = t])

ChangeMonth(m) ==
    /\ out.header
    /\ m \in {out.monthOptions[i] : i \in 1..Len(out.monthOptions)}
    /\ m # widgets.month
    /\ Run([widgets EXCEPT !.month = m])

ChangeViewMode(v) ==
    /\ out.map.selector
    /\ v # widgets.view_mode
    /\ Run([widgets EXCEPT !.view_mode = v])

ChangeOpacityNO2(k) ==
    /\ out.map.sliders
    /\ k # widgets.opacity_no2
    /\ Run([widgets EXCEPT !.opacity_no2 = k])

ChangeOpacityT21(k) ==
    /\ out.map.sliders
    /\ k # widgets.opacity_t21
    /\ Run([widgets EXCEPT !.opacity_t21 = k])

ChangeBlendMode(b) ==
    /\ out.map.sliders
    /\ b # widgets.blend_mode
    /\ Run([widgets EXCEPT !.blend_mode = b])

ChangeLayer(l) ==
    /\ out.map.layerRadio
    /\ l # widgets.layer_choice
    /\ Run([widgets EXCEPT !.layer_choice = l])

(* The environment: the download script, or anyone, creates and removes    *)
(* the files.                                                              *)

EnvCsv ==
    /\ csvExists' = ~csvExists
    /\ UNCHANGED <<metaExists, dirExists, csvTable, images, cache, loads, session,
                   widgets, out, probe>>

EnvMeta ==
    /\ metaExists' = ~metaExists
    /\ UNCHANGED <<csvExists, dirExists, csvTable, images, cache, loads, session,
                   widgets, out, probe>>

EnvDir ==
    /\ dirExists' = ~dirExists
    /\ UNCHANGED <<csvExists, metaExists, csvTable, images, cache, loads, session,
                   widgets, out, probe>>

----------------------------------------------------------------------------
(* Specification of the running application.                               *)

Row(m, no2, t21) == [month |-> m, no2 |-> no2, t21 |-> t21]

\* The tables of the running application: one row, and one row per month.
SampleTables ==
    {<<Row(1, 1234, 30004)>>,
     [m \in Months |-> Row(m, IF m % 2 = 1 THEN 1234 ELSE 3702, 30000 + 4 * (m % 2))]}

\* The two PNG files of a month: the NO2 picture has a transparent pixel, and
\* the T21 picture has another size.
SampleImage(layer) ==
    IF layer = "no2"
    THEN [exists |-> TRUE, px |-> <<[c |-> 40, a |-> 255], [c |-> 0, a |-> 0]>>]
    ELSE [exists |-> TRUE, px |-> <<[c |-> 200, a |-> 128]>>]

\* The months that have a picture of a layer: all, none, or the first only.
ImageMaps ==
    {[layer \in Layers |-> [m \in Months |->
          IF m \in have[layer] THEN SampleImage(layer) ELSE NoFile]] :
       have \in [Layers -> {Months, {}, {1}}]}

\* The opacities the user sets in the running application.
OpacityChoices == {0, 5, 10}

NoProbe ==
    [kind |-> "none", done |-> FALSE, r |-> NaN, label |-> "none",
     no2 |-> NoFile, t21 |-> NoFile, opacity_no2 |-> NoOpacity,
     opacity_t21 |-> NoOpacity, layer_no2 |-> NoFile, layer_t21 |-> NoFile,
     result |-> NoFile]

Fresh ==
    /\ cache = EmptyCache
    /\ loads = 0
    /\ session = "unset"
    /\ widgets = NoWidgets
    /\ out = Blank

Init ==
    /\ csvExists \in BOOLEAN
    /\ metaExists \in BOOLEAN
    /\ dirExists \in BOOLEAN
    /\ csvTable \in SampleTables
    /\ images \in ImageMaps
    /\ Fresh
    /\ probe = NoProbe

Next ==
    \/ Open
    \/ Rerun
    \/ \E t \in {Themes[i] : i \in 1..Len(Themes)} : ChangeTheme(t)
    \/ \E m \in Months : ChangeMonth(m)
    \/ \E v \in {ViewModes[i] : i \in 1..Len(ViewModes)} : ChangeViewMode(v)
    \/ \E k \in OpacityChoices : ChangeOpacityNO2(k)
    \/ \E k \in OpacityChoices : ChangeOpacityT21(k)
    \/ \E b \in {BlendModes[i] : i \in 1..Len(BlendModes)} : ChangeBlendMode(b)
    \/ \E l \in {LayerChoices[i] : i \in 1..Len(LayerChoices)} : ChangeLayer(l)
    \/ EnvCsv
    \/ EnvMeta
    \/ EnvDir

Spec == Init /\ [][Next]_vars

----------------------------------------------------------------------------
(* Properties of the running application (specification Spec).             *)

Range(s) == {s[i] : i \in 1..Len(s)}

\* No element of the dashboard is on the page.
NoDashboard(o) ==
    /\ ~o.header
    /\ o.monthOptions = <<>> /\ o.month = 0
    /\ ~o.metrics /\ ~o.deltaNO2.shown /\ ~o.deltaT21.shown
    /\ ~o.tabs /\ o.map = NoMap /\ o.charts = <<>> /\ o.corrLabel = "none"
    /\ o.table = <<>> /\ ~o.info
    /\ ~o.footer

\* C1: an execution whose loader body found the CSV file or the metadata
\* file missing shows the error message, stops, and renders no element of
\* the dashboard (header, month selector, metrics, tabs, footer).
C1_HaltOnMissingFile ==
    (out.ran /\ out.bodyRan /\ ~(out.csvSeen /\ out.metaSeen)) =>
        /\ out.error = ErrorMsg
        /\ out.halted
        /\ NoDashboard(out)

\* The loader body ran with the CSV file there and the metadata file missing.
C1_Witness ==
    out.ran /\ out.bodyRan /\ out.csvSeen /\ ~out.metaSeen /\ out.halted

\* C6: the loader body runs at most once, the memo never changes once it is
\* filled, the table the script ends with is the memoized one, and no
\* execution of the script changes the files on disk.
C6_LoadedOnceImmutable ==
    [][/\ loads' <= 1
       /\ (cache.filled => cache' = cache)
       /\ ((out'.ran /\ ~out'.halted) => out'.df = cache'.value.df)
       /\ ((out' # out \/ widgets' # widgets \/ session' # session)
              => UNCHANGED diskVars)]_vars

\* A later execution, after a theme change in overlay mode, served from the
\* memo while the CSV file is gone.
C6_Witness ==
    /\ loads = 1 /\ out.ran /\ ~out.bodyRan /\ ~out.halted
    /\ out.themeRadio = "Oscuro" /\ out.map.sliders /\ ~csvExists
    /\ out.df = csvTable

\* C7: what load_data returned when its body ran is (table, metadata, None)
\* if both files were there and (None, None, message) if one was missing;
\* the memo never holds data together with an error.
C7_LoadDataResult ==
    /\ out.bodyRan =>
          IF out.csvSeen /\ out.metaSeen
          THEN cache.value = [df |-> csvTable, none |-> FALSE,
                              metadata |-> Metadata, error |-> "None"]
          ELSE cache.value = [df |-> <<>>, none |-> TRUE,
                              metadata |-> "None", error |-> ErrorMsg]
    /\ cache.filled => (cache.value.error = "None" <=> ~cache.value.none)

\* The body ran with only the metadata file missing and returned the error.
C7_Witness ==
    out.bodyRan /\ out.csvSeen /\ ~out.metaSeen /\ cache.value.error = ErrorMsg

\* C8: after every execution the theme stored in session_state is the value
\* of the theme radio, and every chart of the execution uses the dark
\* template exactly when that theme is 'Oscuro'.
C8_ThemeConsistent ==
    out.ran =>
        /\ session = out.themeRadio
        /\ widgets.theme = out.themeRadio
        /\ out.themeRadio \in Range(Themes)
        /\ \A i \in 1..Len(out.charts) :
              out.charts[i].template =
                  IF session = "Oscuro" THEN "plotly_dark" ELSE "plotly_white"

\* A dashboard drawn with the dark theme: both charts are there.
C8_Witness ==
    out.ran /\ session = "Oscuro" /\ Len(out.charts) = 2

\* The layer of a single-layer view.
ChosenLayer(o) ==
    IF o.map.layer_choice = "NO2 - Dioxido de Nitrogeno" THEN "no2" ELSE "t21"

\* What the view shows of one layer: its picture when the file exists, an
\* error message when it does not.
LayerShown(o, layer) ==
    IF images[layer][o.month].exists
    THEN /\ [layer |-> layer, img |-> images[layer][o.month]] \in Range(o.map.shown)
         /\ layer \notin Range(o.map.errors)
    ELSE /\ layer \in Range(o.map.errors)
         /\ \A i \in 1..Len(o.map.shown) : o.map.shown[i].layer # layer

\* C10: an execution that found the image directory renders exactly one of
\* the three display modes, and shows a picture only if its file exists:
\* side by side each layer or its error, overlay the composite only when
\* both files exist and otherwise one error and no picture, single-layer
\* the chosen layer or its error, and nothing of the other layer.
C10_OneModeImagesExist ==
    (out.ran /\ out.dirSeen) =>
        /\ Cardinality(out.map.modes) = 1
        /\ out.map.modes = {out.map.view_mode}
        /\ out.map.view_mode \in Range(ViewModes)
        /\ \A i \in 1..Len(out.map.shown) :
              IF out.map.shown[i].layer = "overlay"
              THEN images["no2"][out.month].exists /\ images["t21"][out.month].exists
              ELSE images[out.map.shown[i].layer][out.month].exists
        /\ out.map.view_mode = ViewModes[1] =>
              /\ LayerShown(out, "no2") /\ LayerShown(out, "t21")
              /\ Len(out.map.shown) + Len(out.map.errors) = 2
        /\ out.map.view_mode = ViewModes[2] =>
              IF images["no2"][out.month].exists /\ images["t21"][out.month].exists
              THEN /\ Len(out.map.shown) = 1 /\ out.map.shown[1].layer = "overlay"
                   /\ out.map.errors = <<>>
              ELSE out.map.shown = <<>> /\ Len(out.map.errors) = 1
        /\ out.map.view_mode = ViewModes[3] =>
              /\ LayerShown(out, ChosenLayer(out))
              /\ Len(out.map.shown) + Len(out.map.errors) = 1

\* Side by side with the NO2 picture there and the T21 picture missing.
C10_Witness ==
    /\ out.ran /\ out.dirSeen /\ out.map.view_mode = ViewModes[1]
    /\ Len(out.map.shown) = 1 /\ out.map.shown[1].layer = "no2"
    /\ out.map.errors = <<"t21">>

\* The map tab of the page shows the overlay view for month m.
OverlayShown(o, m) == o.ran /\ o.map.view_mode = "Superposicion con control" /\ o.month = m

\* C12: two consecutive executions that show the overlay of the same month
\* from the same picture files with the same two opacities, and differ in the
\* blend mode, display the same composite image (or the same error).
C12_BlendModeNoEffect ==
    [][(/\ \E m \in Months : OverlayShown(out, m) /\ OverlayShown(out', m)
        /\ images' = images
        /\ out'.map.opacity_no2 = out.map.opacity_no2
        /\ out'.map.opacity_t21 = out.map.opacity_t21
        /\ out'.map.blend_mode # out.map.blend_mode)
          => /\ out'.map.shown = out.map.shown
             /\ out'.map.errors = out.map.errors]_vars

\* The overlay with the blend mode set to "Pantalla", a composite on the
\* page, and the T21 layer half transparent, so that the order of the layers
\* shows.
C12_Witness ==
    /\ \E m \in Months : OverlayShown(out, m)
    /\ out.map.blend_mode = "Pantalla"
    /\ out.map.opacity_no2 = 10 /\ out.map.opacity_t21 = 5
    /\ Len(out.map.shown) = 1
    /\ out.map.shown[1].layer = "overlay"

\* C13: once an execution has halted with the error of a missing file, the
\* page stays halted with the same error through every later execution of
\* the process, in this session or a new one, whatever happens to the files.
C13_ErrorSticky ==
    [][(out.ran /\ out.halted) => (out'.halted /\ out'.error = out.error)]_vars

\* An execution that halted with the memoized error while both files were
\* on disk: the loader body did not run again.
C13_Witness ==
    /\ out.ran /\ out.halted /\ out.error = ErrorMsg
    /\ out.filesThere /\ ~out.bodyRan
    /\ csvExists /\ metaExists

\* The chart of the given kind is on the page.
ChartShown(o, kind) == \E i \in 1..Len(o.charts) : o.charts[i].chart = kind

\* C14: an execution that loaded the data and found no directory
\* monthly_images does not stop: the map tab has the warning, no view-mode
\* selector and no image, and the metric panel, the time-series tab (chart
\* and table), the correlation tab (chart and label), the info tab and the
\* footer are on the page.
C14_MissingDirNotFatal ==
    (out.ran /\ out.error = "None" /\ ~out.dirSeen) =>
        /\ ~out.halted
        /\ out.map.warning
        /\ ~out.map.selector /\ out.map.view_mode = "unset" /\ out.map.modes = {}
        /\ out.map.shown = <<>>
        /\ out.metrics
        /\ out.tabs
        /\ ChartShown(out, "series") /\ Len(out.table) = Len(out.df) /\ out.table # <<>>
        /\ ChartShown(out, "scatter") /\ out.corrLabel # "none"
        /\ out.info
        /\ out.footer

\* The page of a loaded table of two months with the warning of the map tab,
\* while picture files of the selected month exist in the model's image map.
C14_Witness ==
    /\ out.ran /\ out.error = "None" /\ ~out.dirSeen /\ ~dirExists
    /\ out.map.warning /\ out.footer
    /\ Len(out.df) = MaxMonth
    /\ images["no2"][out.month].exists

----------------------------------------------------------------------------
(* The month selector and the metric panel over every table within the     *)
(* bounds (specification SpecData): both files are there, the user opens   *)
(* the page and chooses months.                                            *)

NoImages == [layer \in Layers |-> [m \in Months |-> NoFile]]

InitData ==
    /\ csvExists = TRUE
    /\ metaExists = TRUE
    /\ dirExists = FALSE
    /\ csvTable \in Tables
    /\ images = NoImages
    /\ Fresh
    /\ probe = NoProbe

NextData ==
    \/ Open
    \/ \E m \in Months : ChangeMonth(m)

SpecData == InitData /\ [][NextData]_vars

\* The data model's invariant: one row per month, in chronological order.
WellFormed(df) ==
    \A i \in 1..Len(df) : \A j \in 1..Len(df) : i < j => df[i].month < df[j].month

\* n is x to the nearest multiple of unit (either neighbour on a tie).
Nearest(n, x, unit) == n % unit = 0 /\ 2 * Abs(n - x) <= unit

\* The first row of month m in the table.
FirstRowOf(df, m) ==
    df[CHOOSE i \in 1..Len(df) : df[i].month = m /\ \A j \in 1..(i - 1) : df[j].month # m]

\* C2 as stated: the metric panel shows exactly the NO2 and T21 values of a
\* row of the selected month (the T21 metric is in tenths, the table in
\* hundredths of a Kelvin).
C2_MetricsExact ==
    out.metrics =>
        \E i \in 1..Len(out.df) :
            /\ out.df[i].month = out.month
            /\ out.metricNO2 = out.df[i].no2
            /\ out.metricT21 * 10 = out.df[i].t21

\* C2 as amended: the metric panel shows the NO2 value of the first row of
\* the selected month to three significant digits and its T21 value to one
\* decimal place.
C2_MetricsRounded ==
    out.metrics =>
        /\ out.month \in Range(out.monthOptions)
        /\ LET row == FirstRowOf(out.df, out.month)
           IN  /\ Nearest(out.metricNO2, row.no2, IF row.no2 < 1000 THEN 1 ELSE 10)
               /\ Nearest(out.metricT21 * 10, row.t21, 10)

\* The user chose the first month, which has two rows of different values,
\* neither of which is shown exactly.
C2_Witness ==
    /\ out.metrics /\ Len(out.monthOptions) > 1 /\ out.month = out.monthOptions[1]
    /\ \E i, j \in 1..Len(out.df) :
          /\ i < j /\ out.df[i].month = out.month /\ out.df[j].month = out.month
          /\ out.df[i].no2 = 1234 /\ out.df[i].t21 = 30004
          /\ out.df[j].no2 # 1234 /\ out.df[j].t21 # 30004

\* The row of the month before the selected one, in a well-formed table.
PreviousRow(df, m) ==
    df[CHOOSE i \in 1..Len(df) :
          df[i].month < m /\ \A j \in 1..Len(df) : df[j].month < m => df[j].month <= df[i].month]

\* C3 as stated, for a table of one row per month in chronological order:
\* for the first month no delta is shown; for any other month the delta
\* shown (in tenths of a percent) is exactly (cur - prev) / prev * 100,
\* which in floating point is inf or nan when prev is 0.
C3_DeltaExact ==
    (out.metrics /\ WellFormed(out.df)) =>
        IF out.month = out.monthOptions[1]
        THEN ~out.deltaNO2.shown
        ELSE LET cur == FirstRowOf(out.df, out.month).no2
                 prev == PreviousRow(out.df, out.month).no2
             IN  /\ out.deltaNO2.shown
                 /\ IF prev = 0
                    THEN out.deltaNO2.kind \in {"inf", "nan"}
                    ELSE /\ out.deltaNO2.kind = "num"
                         /\ out.deltaNO2.tenths * prev = (cur - prev) * 1000

\* C3 as amended: the delta shown is that percentage rounded to one decimal
\* place, and inf (or nan, for 0 / 0) when the previous month's NO2 is 0.
C3_DeltaRounded ==
    (out.metrics /\ WellFormed(out.df)) =>
        IF out.month = out.monthOptions[1]
        THEN ~out.deltaNO2.shown
        ELSE LET cur == FirstRowOf(out.df, out.month).no2
                 prev == PreviousRow(out.df, out.month).no2
             IN  /\ out.deltaNO2.shown
                 /\ IF prev = 0
                    THEN out.deltaNO2.kind = IF cur = 0 THEN "nan" ELSE "inf"
                    ELSE /\ out.deltaNO2.kind = "num"
                         /\ 2 * Abs(out.deltaNO2.tenths * prev - (cur - prev) * 1000) <= prev

\* A fall from 3702 to 1234: -66.666...%, shown as -66.7%.
C3_Witness ==
    /\ out.metrics /\ WellFormed(out.df) /\ Len(out.df) > 1
    /\ out.month # out.monthOptions[1]
    /\ FirstRowOf(out.df, out.month).no2 = 1234
    /\ PreviousRow(out.df, out.month).no2 = 3702
    /\ out.deltaNO2 = [shown |-> TRUE, kind |-> "num", tenths |-> 0 - 667]

\* C9: the options of the month selector are the distinct months of the
\* table in ascending order, each once, and a page opened by a new session
\* selects the latest of them.
C9_MonthOptions ==
    [][out'.header =>
          /\ Range(out'.monthOptions) = {out'.df[i].month : i \in 1..Len(out'.df)}
          /\ \A i \in 1..Len(out'.monthOptions) : \A j \in 1..Len(out'.monthOptions) :
                i < j => out'.monthOptions[i] < out'.monthOptions[j]
          /\ Open =>
                \A i \in 1..Len(out'.monthOptions) : out'.monthOptions[i] <= out'.month]_vars

\* A table whose rows are out of order and repeat a month; the page has just
\* been opened and selects the latest month.
C9_Witness ==
    /\ out.header /\ Len(out.df) > Len(out.monthOptions) /\ Len(out.monthOptions) > 1
    /\ out.df[1].month > out.df[Len(out.df)].month
    /\ out.month = out.monthOptions[Len(out.monthOptions)]

----------------------------------------------------------------------------
(* The strength label as a function of r (specification SpecCorr): r is    *)
(* NaN or k / RScale, a little beyond [-1, 1] included.                    *)

CorrInputs ==
    {NaN} \cup {[nan |-> FALSE, neg |-> k < 0, sqn |-> k * k, sqd |-> RScale * RScale] :
                    k \in (0 - RScale - 1)..(RScale + 1)}

InitCorr ==
    /\ csvExists = TRUE
    /\ metaExists = TRUE
    /\ dirExists = FALSE
    /\ csvTable \in {<<Row(1, 1234, 30004)>>}
    /\ images = NoImages
    /\ Fresh
    /\ probe \in {[NoProbe EXCEPT !.kind = "corr", !.r = r] : r \in CorrInputs}

\* Lines 603-617 applied to r.
Interpret ==
    /\ probe.kind = "corr"
    /\ ~probe.done
    /\ probe' = [probe EXCEPT !.done = TRUE, !.label = Interpretation(probe.r)]
    /\ UNCHANGED <<diskVars, cache, loads, session, widgets, out>>

NextCorr == Interpret

SpecCorr == InitCorr /\ [][NextCorr]_vars

\* C5: every r gets exactly one label: weak when |r| < 0.3, moderate when
\* 0.3 <= |r| < 0.7, strong otherwise (NaN included).
C5_LabelPartition ==
    probe.done =>
        LET r == probe.r
            weak == ~r.nan /\ 100 * r.sqn < 9 * r.sqd
            moderate == ~r.nan /\ 9 * r.sqd <= 100 * r.sqn /\ 100 * r.sqn < 49 * r.sqd
        IN  /\ probe.label \in {"Correlacion Debil", "Correlacion Moderada", "Correlacion Fuerte"}
            /\ probe.label = "Correlacion Debil" <=> weak
            /\ probe.label = "Correlacion Moderada" <=> moderate
            /\ probe.label = "Correlacion Fuerte" <=> (~weak /\ ~moderate)

\* r = -0.3, on the boundary, is labelled moderate.
C5_Witness ==
    /\ probe.done /\ ~probe.r.nan /\ probe.r.neg
    /\ 100 * probe.r.sqn = 9 * probe.r.sqd
    /\ probe.label = "Correlacion Moderada"

----------------------------------------------------------------------------
(* The overlay as a function of the two pictures and the two opacities     *)
(* (specification SpecOverlay): every pair of pictures within the bounds,  *)
(* every position of the two sliders.                                      *)

InitOverlay ==
    /\ csvExists = TRUE
    /\ metaExists = TRUE
    /\ dirExists = TRUE
    /\ csvTable \in {<<Row(1, 1234, 30004)>>}
    /\ images = NoImages
    /\ Fresh
    /\ probe \in {[NoProbe EXCEPT !.kind = "overlay", !.no2 = a, !.t21 = b] :
                     a \in ImageFiles, b \in ImageFiles}

\* Lines 308-328 applied to the two pictures: the two layers and their
\* composite.
Compose(opacity_no2, opacity_t21) ==
    /\ probe.kind = "overlay"
    /\ ~probe.done
    /\ \E l \in {OverlayLayers(probe.no2, probe.t21, opacity_no2, opacity_t21)} :
           probe' = [probe EXCEPT !.done = TRUE,
                                  !.opacity_no2 = opacity_no2,
                                  !.opacity_t21 = opacity_t21,
                                  !.layer_no2 = l.no2,
                                  !.layer_t21 = l.t21,
                                  !.result = Overlay(probe.no2, probe.t21,
                                                     opacity_no2, opacity_t21)]
    /\ UNCHANGED <<diskVars, cache, loads, session, widgets, out>>

NextOverlay == \E a \in SliderSteps : \E b \in SliderSteps : Compose(a, b)

SpecOverlay == InitOverlay /\ [][NextOverlay]_vars

\* C4: with the NO2 opacity at 1.0 and the T21 opacity at 0.0 the composite
\* is the NO2 picture, unchanged, whatever the two pictures are.
C4_OverlayShowsNO2Unchanged ==
    (probe.done /\ probe.opacity_no2 = 10 /\ probe.opacity_t21 = 0)
        => probe.result = probe.no2

\* The colour values of an image's pixels, in order.
Colours(img) == [i \in 1..Size(img) |-> img.px[i].c]

\* Every pixel of the image has the alpha value alpha.
UniformAlpha(img, alpha) == \A i \in 1..Size(img) : img.px[i].a = alpha

\* C11: the NO2 layer keeps its size and its colours, the T21 layer has the
\* size of the NO2 picture (and its own colours when the sizes were equal
\* already), the composite has the size of the NO2 picture, and the alpha of
\* every pixel of a layer is floor(255 x the opacity of that layer), whatever
\* the opacity of the other layer.
C11_ResizeAndLayerAlpha ==
    probe.done =>
        /\ Size(probe.layer_no2) = Size(probe.no2)
        /\ Colours(probe.layer_no2) = Colours(probe.no2)
        /\ Size(probe.layer_t21) = Size(probe.no2)
        /\ (Size(probe.t21) = Size(probe.no2)
               => Colours(probe.layer_t21) = Colours(probe.t21))
        /\ Size(probe.result) = Size(probe.no2)
        /\ \E a \in 0..255 :
               /\ 10 * a <= 255 * probe.opacity_no2
               /\ 255 * probe.opacity_no2 < 10 * (a + 1)
               /\ UniformAlpha(probe.layer_no2, a)
        /\ \E a \in 0..255 :
               /\ 10 * a <= 255 * probe.opacity_t21
               /\ 255 * probe.opacity_t21 < 10 * (a + 1)
               /\ UniformAlpha(probe.layer_t21, a)

\* A two-pixel NO2 picture over a one-pixel T21 picture, with the opacities
\* 0.1 and 0.7: the layers get the alpha values 25 and 178.
C11_Witness ==
    /\ probe.done
    /\ Size(probe.no2) = 2 /\ Size(probe.t21) = 1
    /\ probe.opacity_no2 = 1 /\ probe.opacity_t21 = 7
    /\ Size(probe.layer_t21) = 2 /\ Size(probe.result) = 2
    /\ UniformAlpha(probe.layer_no2, 25)
    /\ UniformAlpha(probe.layer_t21, 178)

====
